---- MODULE Spec2Model ----
(***************************************************************************)
(* Model of the conversion pipeline of src/app.py: the /convert handler    *)
(* (validation, upload, fingerprint, Redis result cache, engine selection  *)
(* with fallback, post-processing, cache store, cleanup, statistics), the  *)
(* retention sweeper thread and the wall clock (Spec); the image, merge    *)
(* and compress handlers (SpecOps); the sweeper over aged files            *)
(* (SpecSweep); update_stats called from two threads (SpecStats); Convert  *)
(* requests handled at the same time (SpecConc).                           *)
(***************************************************************************)
EXTENDS Integers, Sequences, FiniteSets, TLC

\* ------------------------------------------------------------------ bounds
TickStep == 2000      \* seconds the clock advances in one Tick
MaxTime == 4500       \* the clock stops advancing here

\* ------------------------------------------------------- program constants
FILE_RETENTION_HOURS == 1
SecondsPerHour == 3600
CACHE_TTL == 3600
ReadChunk == 4096
ALLOWED_EXTENSIONS == {"pdf", "png", "jpg", "jpeg"}

None == "None"
NoCode == 0                   \* no HTTP status attached
NoHash == 0 - 1               \* file_hash not computed
NoTime == 0 - 1               \* no processing_time in the body
NoName == [stem |-> "", id |-> "", ext |-> ""]   \* no path / no filename
Unbound == "Unbound"          \* a local name the handler has not assigned yet
Engines == {"standard", "high_quality"}
Reqs == {"r1", "r2"}          \* the requests of one behaviour, each received once
Earlier(r) == IF r = "r2" THEN {"r1"} ELSE {}   \* named in order of arrival

\* engine_usage keys of conversion_stats
UsageKeys ==
  {"standard", "high_quality", "pdf_to_image", "image_to_pdf", "merge_pdf", "compress_pdf"}

\* ------------------------------------------------------------ input menus
NoDot == "NoDot"
FileNames ==
  { [stem |-> "a", ext |-> "PDF"], [stem |-> "c", ext |-> "txt"],
    [stem |-> "d", ext |-> NoDot], [stem |-> "", ext |-> NoDot] }
Contents == { <<1>>, <<1, 2>> }
EngineFields == {"standard", "high_quality", "bogus", None}
\* names of the files sent to the image and merge operations
ImageNames ==
  { [stem |-> "p", ext |-> "PNG"], [stem |-> "a", ext |-> "pdf"],
    [stem |-> "", ext |-> NoDot] }

\* ---------------------------------------------------------------- helpers
Lower(ext) ==
  CASE ext = "PDF" -> "pdf"
    [] ext = "PNG" -> "png"
    [] OTHER -> ext

\* allowed_file: a dot in the name and the lower-cased extension accepted
allowed_file(filename) ==
  filename.ext # NoDot /\ Lower(filename.ext) \in ALLOWED_EXTENSIONS

\* clean_filename: secure name, missing parts defaulted, unique suffix added
clean_filename(filename, unique_id) ==
  LET name == IF filename.stem = "" THEN "document" ELSE filename.stem
      ext == IF filename.ext = NoDot THEN "pdf" ELSE filename.ext
  IN [stem |-> name, id |-> unique_id, ext |-> ext]

\* safe_filename.rsplit('.', 1)[0] + '.docx'
DocxName(safe_filename) == [safe_filename EXCEPT !.ext = "docx"]

\* f.read(4096) until b"": the chunks the digest is fed with
RECURSIVE ReadChunks(_)
ReadChunks(bytes) ==
  IF Len(bytes) = 0 THEN <<>>
  ELSE IF Len(bytes) <= ReadChunk THEN <<bytes>>
  ELSE <<SubSeq(bytes, 1, ReadChunk)>> \o ReadChunks(SubSeq(bytes, ReadChunk + 1, Len(bytes)))

\* hash_md5.update(chunk): the digest state absorbs the bytes of one chunk
RECURSIVE Md5Update(_, _)
Md5Update(h, chunk) ==
  IF Len(chunk) = 0 THEN h
  ELSE Md5Update((h * 31 + Head(chunk) + 1) % 65536, Tail(chunk))

RECURSIVE Md5Chunks(_, _)
Md5Chunks(h, chunks) ==
  IF Len(chunks) = 0 THEN h ELSE Md5Chunks(Md5Update(h, Head(chunks)), Tail(chunks))

\* get_file_hash: digest of the stored bytes, whatever the file is called
get_file_hash(file) == Md5Chunks(7, ReadChunks(file.bytes))

VARIABLES
  PDF2DOCX_AVAILABLE, ASPOSE_AVAILABLE,   \* engine availability, fixed at start-up
  cache_available,                        \* Redis connected at start-up (redis_client set)
  RENDER,                                 \* RENDER environment variable set
  fitz,                                   \* PyMuPDF imported (fitz is not None)
  now,                                    \* wall clock, seconds
  uploads,                                \* UPLOAD_FOLDER: name -> [mtime, bytes]
  converted,                              \* CONVERTED_FOLDER: name -> [mtime, whole, rtl, by]
  redis_kv,                               \* Redis keys pdf_convert:<hash>:<engine>
  redis_total,                            \* Redis key pdfaraby:total_conversions
  conversion_stats,
  workers,                                \* requests the server handles at a time
  pc, loc, hist, resp,                    \* per request thread
  log                                     \* completed engine runs (sweeper cycles
                                          \* in SpecSweep), oldest first

vars == <<PDF2DOCX_AVAILABLE, ASPOSE_AVAILABLE, cache_available, RENDER, fitz, now, uploads,
          converted, redis_kv, redis_total, conversion_stats, workers, pc, loc, hist,
          resp, log>>

env == <<PDF2DOCX_AVAILABLE, ASPOSE_AVAILABLE, cache_available, RENDER, fitz, workers>>


\* ------------------------------------------------------------- statistics
RECURSIVE Gcd(_, _)
Gcd(a, b) == IF b = 0 THEN a ELSE Gcd(b, a % b)

\* a non-negative rational in lowest terms
Rat(n, d) ==
  LET g == Gcd(n, d) IN IF n = 0 THEN [num |-> 0, den |-> 1] ELSE [num |-> n \div g, den |-> d \div g]

StatsInit ==
  [ total_conversions |-> 0, successful_conversions |-> 0, failed_conversions |-> 0,
    average_processing_time |-> Rat(0, 1),
    engine_usage |-> [k \in UsageKeys |-> 0] ]

\* The shared things one handler run changes: conversion_stats, the Redis
\* counter, the upload folder, and the record of update_stats calls made.
Mem(stats, rtotal, ups, calls) ==
  [stats |-> stats, rtotal |-> rtotal, uploads |-> ups, calls |-> calls]

\* update_stats(success, engine, processing_time). incr_ok: the Redis incr
\* succeeds. raised: the engine_usage lookup raised KeyError, which leaves the
\* counters above it already changed and skips the rest.
update_stats(m, success, engine, processing_time, incr_ok) ==
  LET s1 == [m.stats EXCEPT !.total_conversions = @ + 1]
      s2 == IF success
            THEN [s1 EXCEPT !.successful_conversions = @ + 1]
            ELSE [s1 EXCEPT !.failed_conversions = @ + 1]
      call == [success |-> success, engine |-> engine]
      m2 == [m EXCEPT !.stats = s2, !.calls = Append(@, call)]
  IN IF engine \notin DOMAIN m.stats.engine_usage
     THEN [m |-> m2, raised |-> TRUE]
     ELSE LET s3 == [s2 EXCEPT !.engine_usage[engine] = @ + 1]
              n == s3.total_conversions
              avg == s3.average_processing_time
              s4 == IF n = 1
                    THEN [s3 EXCEPT !.average_processing_time = Rat(processing_time, 1)]
                    ELSE [s3 EXCEPT !.average_processing_time =
                            Rat(avg.num * (n - 1) + processing_time * avg.den, avg.den * n)]
              rt == IF cache_available /\ incr_ok THEN m.rtotal + 1 ELSE m.rtotal
          IN [m |-> [m2 EXCEPT !.stats = s4, !.rtotal = rt], raised |-> FALSE]

\* ------------------------------------------------- exceptions and responses
\* str(e) is kept in two parts: the fixed wording and the interpolated text
\* of an underlying exception (None when there is none).
Text(text, detail) == [text |-> text, detail |-> detail]
NoText == Text("", None)

HttpPhrase(code) ==
  CASE code = 400 -> "400 Bad Request"
    [] code = 503 -> "503 Service Unavailable"
    [] OTHER -> "500 Internal Server Error"

\* api.abort(code, message): an HTTPException carrying data = {message}
HTTPError(code, message) ==
  [type |-> "HTTPException", code |-> code, message |-> message,
   str |-> Text(HttpPhrase(code), None)]

KeyError == [type |-> "KeyError", code |-> NoCode, message |-> NoText,
             str |-> Text("'unknown'", None)]

\* an exception raised by a collaborator (engine, Redis, file system)
Failure(detail) ==
  [type |-> "Exception", code |-> NoCode, message |-> NoText, str |-> Text("", detail)]

\* raise Exception(f"<high quality engine error>: {asp_e}")
AsposeFailure(asp_e) ==
  [type |-> "Exception", code |-> NoCode, message |-> NoText,
   str |-> Text("high quality engine error: ", asp_e.str.detail)]

\* the messages of the handler
MsgNoFile == Text("no file was sent", None)
MsgNoName == Text("no file was chosen", None)
MsgBadType == Text("file type not allowed", None)
MsgNoEngine == Text("no conversion engine available", None)
MsgNoWord == Text("failed to create the Word file", None)
MsgOk == Text("converted successfully", None)
MsgOkCached == Text("converted successfully (from cache)", None)
MsgUnexpected == Text("unexpected error, try again later", None)

\* the body flask-restx renders for an HTTPException: {"message": ...}
\* (success is TRUE only when the body says success = true)
AbortResponse(e) ==
  [code |-> e.code, success |-> FALSE, message |-> e.message, filename |-> NoName,
   engine_used |-> None, download_url |-> NoName, error |-> NoText,
   cached |-> None, processing_time |-> NoTime]

\* the fields of response_model
ResponseFields ==
  {"success", "message", "filename", "engine_used", "download_url", "error"}

\* a field of the dict a handler returns, as marshal_with renders it
Flag(b) == IF b THEN "true" ELSE "false"

\* marshal_with(response_model): only the fields of the model survive
Marshal(d) ==
  [code |-> 200, success |-> d.success, message |-> d.message, filename |-> d.filename,
   engine_used |-> d.engine_used, download_url |-> d.download_url, error |-> NoText,
   cached |-> IF "cached" \in ResponseFields THEN Flag(d.cached) ELSE None,
   processing_time |-> IF "processing_time" \in ResponseFields
                       THEN d.processing_time ELSE NoTime]

\* an exception that leaves post() and is not an HTTPException
handle_unexpected_error(error) ==
  [code |-> 500, success |-> FALSE, message |-> NoText, filename |-> NoName,
   engine_used |-> None, download_url |-> NoName, error |-> MsgUnexpected,
   cached |-> None, processing_time |-> NoTime]

RemoveFile(folder, name) == [n \in DOMAIN folder \ {name} |-> folder[n]]

\* an except block that leaves the upload where it is
ConvertExcept_KeepsUpload(m, e, eng, pdf_path, processing_time, incr_ok) ==
  LET u == update_stats(m, FALSE, IF eng = Unbound THEN "unknown" ELSE eng,
                        processing_time, incr_ok)
  IN IF u.raised
     THEN [m |-> u.m, resp |-> handle_unexpected_error(KeyError)]
     ELSE [m |-> u.m, resp |-> AbortResponse(HTTPError(500, e.str))]

\* except Exception as e (Convert.post): remove the upload, record a failure,
\* abort(500, str(e)). eng is Unbound while 'engine' is not in locals().
ConvertExcept(m, e, eng, pdf_path, processing_time, incr_ok) ==
  LET m1 == IF pdf_path # NoName /\ pdf_path \in DOMAIN m.uploads
            THEN [m EXCEPT !.uploads = RemoveFile(@, pdf_path)]
            ELSE m
      u == update_stats(m1, FALSE, IF eng = Unbound THEN "unknown" ELSE eng,
                        processing_time, incr_ok)
  IN IF u.raised
     THEN [m |-> u.m, resp |-> handle_unexpected_error(KeyError)]
     ELSE [m |-> u.m, resp |-> AbortResponse(HTTPError(500, e.str))]

\* update_stats(False, engine, ...) followed by api.abort(code, message),
\* inside the try block of Convert.post
StatsThenAbort(m, eng_stats, code, message, eng, pdf_path, processing_time, i1, i2) ==
  LET u == update_stats(m, FALSE, eng_stats, processing_time, i1)
  IN IF u.raised
     THEN ConvertExcept(u.m, KeyError, eng, pdf_path, processing_time, i2)
     ELSE ConvertExcept(u.m, HTTPError(code, message), eng, pdf_path, processing_time, i2)


\* ------------------------------------------------------------ Redis cache
CacheKey(file_hash, engine) == [hash |-> file_hash, engine |-> engine]

\* redis_client.get: the value of a key that exists and has not expired
RedisLive(kv, key, t) == key \in DOMAIN kv /\ t < kv[key].expires

\* a lookup that takes a live entry of the fingerprint under any engine
get_cached_result_AnyEngine(kv, file_hash, engine, t) ==
  LET ks == { k \in DOMAIN kv : k.hash = file_hash /\ t < kv[k].expires }
  IN IF ~cache_available \/ ks = {} THEN NoName ELSE kv[CHOOSE k \in ks : TRUE].value

\* get_cached_result (the get has not raised): the cached name, or NoName
get_cached_result(kv, file_hash, engine, t) ==
  IF ~cache_available THEN NoName
  ELSE IF RedisLive(kv, CacheKey(file_hash, engine), t)
       THEN kv[CacheKey(file_hash, engine)].value
       ELSE NoName

\* a store that leaves an existing key as it is
RedisSetex_KeepFirst(kv, key, ttl, value, t) ==
  [k \in DOMAIN kv \cup {key} |->
     IF k \in DOMAIN kv THEN kv[k] ELSE [value |-> value, expires |-> t + ttl]]

\* redis_client.setex(cache_key, 3600, result_filename)
RedisSetex(kv, key, ttl, value, t) ==
  [k \in DOMAIN kv \cup {key} |->
     IF k = key THEN [value |-> value, expires |-> t + ttl] ELSE kv[k]]

\* set_cached_result (the setex has not raised)
set_cached_result(kv, file_hash, engine, result_filename, t) ==
  IF ~cache_available THEN kv
  ELSE RedisSetex(kv, CacheKey(file_hash, engine), CACHE_TTL, result_filename, t)

\* the hit test without the check that the artifact still exists
CacheHit_NoExistsCheck(cached_result, folder) == cached_result # NoName

\* if cached_result and os.path.exists(os.path.join(CONVERTED_FOLDER, cached_result))
CacheHit(cached_result, folder) ==
  cached_result # NoName /\ cached_result \in DOMAIN folder

\* --------------------------------------------------------- per-request state
LocInit ==
  [start_time |-> 0, pdf_path |-> NoName, engine |-> Unbound, file_hash |-> NoHash,
   docx_filename |-> NoName, success |-> FALSE]

\* What a request has done so far (observations the properties are stated on)
HistInit ==
  [op |-> None, valid |-> FALSE, requested |-> None, bytes |-> <<>>,
   file_hash |-> NoHash, saved |-> NoName, wrote |-> NoName, branch |-> None,
   invoked |-> None, outcome |-> None, looked |-> FALSE, cache_hit |-> FALSE,
   stale |-> None, prior |-> {}, get_failed |-> FALSE, setex_failed |-> FALSE,
   calls |-> <<>>, start |-> 0, inputs |-> {}, nfiles |-> 0, runs |-> 0,
   began |-> 0]

NoResp ==
  [code |-> NoCode, success |-> FALSE, message |-> NoText, filename |-> NoName,
   engine_used |-> None, download_url |-> NoName, error |-> NoText,
   cached |-> None, processing_time |-> NoTime]

Init ==
  /\ PDF2DOCX_AVAILABLE \in BOOLEAN
  /\ ASPOSE_AVAILABLE \in BOOLEAN
  /\ cache_available \in BOOLEAN
  /\ RENDER \in BOOLEAN
  /\ fitz = TRUE                 \* Convert.post does not read it
  /\ now = 0
  /\ uploads = << >>
  /\ converted = << >>
  /\ redis_kv = << >>
  /\ redis_total = 0
  /\ conversion_stats = StatsInit
  /\ workers = 1
  /\ pc = [r \in Reqs |-> "idle"]
  /\ loc = [r \in Reqs |-> LocInit]
  /\ hist = [r \in Reqs |-> HistInit]
  /\ resp = [r \in Reqs |-> NoResp]
  /\ log = << >>

\* the handler of request r returns: its effects become visible, its locals go
Return(r, res, h) ==
  /\ conversion_stats' = res.m.stats
  /\ redis_total' = res.m.rtotal
  /\ uploads' = res.m.uploads
  /\ resp' = [resp EXCEPT ![r] = res.resp]
  /\ hist' = [hist EXCEPT ![r] = [h EXCEPT !.calls = res.m.calls]]
  /\ pc' = [pc EXCEPT ![r] = "done"]
  /\ loc' = [loc EXCEPT ![r] = LocInit]

\* request.form.get('engine', 'standard'), anything unknown becomes standard
NormaliseEngine(field) == IF field \in {"standard", "high_quality"} THEN field ELSE "standard"

\* Convert.post, from entry to file.save(pdf_path)
ConvertReceive(r) ==
  /\ pc[r] = "idle"
  /\ \A q \in Earlier(r) : pc[q] # "idle"
  /\ Cardinality({q \in Reqs : pc[q] \notin {"idle", "done"}}) < workers
  /\ \E has_file \in BOOLEAN, filename \in FileNames, bytes \in Contents,
        field \in EngineFields, save_ok \in BOOLEAN, incr_ok \in BOOLEAN :
       LET m0 == Mem(conversion_stats, redis_total, uploads, <<>>)
           h0 == [HistInit EXCEPT !.op = "convert", !.start = Len(log)]
           engine == NormaliseEngine(field)
           \* uuid4: a suffix no other request gets
           safe_filename == clean_filename(filename, r)
           h1 == [h0 EXCEPT !.valid = TRUE, !.requested = engine, !.bytes = bytes]
       IN IF ~has_file
             THEN Return(r, StatsThenAbort(m0, "unknown", 400, MsgNoFile, Unbound, NoName,
                                           0, incr_ok, incr_ok), h0)
             ELSE IF filename.stem = "" /\ filename.ext = NoDot
             THEN Return(r, StatsThenAbort(m0, "unknown", 400, MsgNoName, Unbound, NoName,
                                           0, incr_ok, incr_ok), h0)
             ELSE IF ~allowed_file(filename)
             THEN Return(r, StatsThenAbort(m0, "unknown", 400, MsgBadType, Unbound, NoName,
                                           0, incr_ok, incr_ok), h0)
             ELSE IF ~save_ok
             THEN Return(r, ConvertExcept(m0, Failure("io_detail"), engine, safe_filename,
                                          0, incr_ok), h1)
             ELSE /\ uploads' = [n \in DOMAIN uploads \cup {safe_filename} |->
                                   IF n = safe_filename
                                   THEN [mtime |-> now, bytes |-> bytes]
                                   ELSE uploads[n]]
                  /\ loc' = [loc EXCEPT ![r] = [LocInit EXCEPT !.start_time = now,
                                                  !.pdf_path = safe_filename,
                                                  !.engine = engine]]
                  /\ hist' = [hist EXCEPT ![r] = [h1 EXCEPT !.saved = safe_filename]]
                  /\ pc' = [pc EXCEPT ![r] = "saved"]
                  /\ resp' = [resp EXCEPT ![r] = NoResp]
                  /\ UNCHANGED <<conversion_stats, redis_total>>
  /\ UNCHANGED <<env, now, converted, redis_kv, log>>

\* Convert.post, fingerprint and cache lookup, with the cache-hit return
ConvertCacheCheck(r) ==
  /\ pc[r] = "saved"
  /\ \E get_ok \in BOOLEAN, incr_ok \in BOOLEAN :
       LET l == loc[r]
           h == hist[r]
           pt == now - l.start_time
           m0 == Mem(conversion_stats, redis_total, uploads, h.calls)
       IN IF l.pdf_path \notin DOMAIN uploads
          THEN Return(r, ConvertExcept(m0, Failure("io_detail"), l.engine, l.pdf_path,
                                       pt, incr_ok), h)
          ELSE
          LET file_hash == get_file_hash(uploads[l.pdf_path])
              key == CacheKey(file_hash, l.engine)
              h1 == [h EXCEPT !.file_hash = file_hash]
              cached_result == get_cached_result(redis_kv, file_hash, l.engine, now)
              hit == CacheHit(cached_result, converted)
              stale == IF ~cache_available \/ key \notin DOMAIN redis_kv THEN None
                       ELSE IF now >= redis_kv[key].expires THEN "expired"
                       ELSE IF redis_kv[key].value \notin DOMAIN converted THEN "missing"
                       ELSE None
              prior == IF ~cache_available THEN {}
                       ELSE { i \in 1..h.start :
                                /\ log[i].bytes = h.bytes
                                /\ log[i].requested = h.requested
                                /\ log[i].stored
                                /\ now < log[i].stored_at + CACHE_TTL
                                /\ log[i].artifact \in DOMAIN converted }
              h2 == [h1 EXCEPT !.looked = TRUE, !.stale = stale, !.prior = prior,
                               !.cache_hit = hit]
          IN IF cache_available /\ ~get_ok
             THEN Return(r, ConvertExcept(m0, Failure("redis_detail"), l.engine, l.pdf_path,
                                          pt, incr_ok),
                         [h1 EXCEPT !.get_failed = TRUE])
             ELSE IF hit
             THEN LET u == update_stats(m0, TRUE, l.engine, pt, incr_ok)
                      d == [success |-> TRUE, message |-> MsgOkCached,
                            filename |-> cached_result, engine_used |-> l.engine,
                            download_url |-> cached_result, cached |-> TRUE]
                  IN Return(r, [m |-> u.m, resp |-> Marshal(d)], h2)
             ELSE /\ loc' = [loc EXCEPT ![r] = [l EXCEPT !.file_hash = file_hash,
                                                  !.docx_filename = DocxName(l.pdf_path)]]
                  /\ hist' = [hist EXCEPT ![r] = h2]
                  /\ pc' = [pc EXCEPT ![r] = "miss"]
                  /\ UNCHANGED <<conversion_stats, redis_total, uploads, resp>>
  /\ UNCHANGED <<env, now, converted, redis_kv, log>>


\* ---------------------------------------------------- engines (collaborators)
\* What one engine invocation may do: write the whole output, return without
\* an output file, raise before writing, or raise leaving a partial file.
Outcomes == {"ok", "nofile", "raise", "raise_partial"}

\* a selection that takes the standard engine whenever it is there
SelectBranch_StandardFirst(engine, pdf2docx, aspose) ==
  IF pdf2docx THEN (IF engine = "standard" THEN "pdf2docx" ELSE "fallback_pdf2docx")
  ELSE IF aspose THEN (IF engine = "high_quality" THEN "aspose" ELSE "fallback_aspose")
  ELSE "none"

\* The if / elif / else of Convert.post that picks the engine to run
SelectBranch(engine, pdf2docx, aspose) ==
  IF engine = "high_quality" /\ aspose THEN "aspose"
  ELSE IF engine = "standard" /\ pdf2docx THEN "pdf2docx"
  ELSE IF pdf2docx THEN "fallback_pdf2docx"
  ELSE IF aspose THEN "fallback_aspose"
  ELSE "none"

\* the engine a branch runs
BranchEngine(branch) ==
  IF branch \in {"pdf2docx", "fallback_pdf2docx"} THEN "standard" ELSE "high_quality"

\* a fallback that does not rewrite the local 'engine'
EngineAfter_NoRewrite(engine, branch) == engine

\* the value of the local 'engine' after a branch has run to its end
EngineAfter(engine, branch) ==
  CASE branch = "fallback_pdf2docx" -> "standard"
    [] branch = "fallback_aspose" -> "high_quality"
    [] OTHER -> engine

\* the engine's writes to docx_path
EngineWrite(folder, docx_path, outcome, by, t) ==
  IF outcome \in {"ok", "raise_partial"}
  THEN [n \in DOMAIN folder \cup {docx_path} |->
          IF n = docx_path
          THEN [mtime |-> t, whole |-> outcome = "ok", rtl |-> FALSE, by |-> by]
          ELSE folder[n]]
  ELSE folder

\* the documents apply_rtl_to_docx goes through: paragraphs of text runs; a
\* run is blank, or text that arabic_reshaper takes ("ok"), or text on which
\* it raises ("bad")
MaxParagraphs == 2
MaxRuns == 2
RunKinds == {"blank", "ok", "bad"}
Runs == [kind : RunKinds, reshaped : {FALSE}]
Paragraphs == { [runs |-> rs, jc |-> "left"] : rs \in UNION { [1..k -> Runs] : k \in 0..MaxRuns } }
Docs == UNION { [1..k -> Paragraphs] : k \in 0..MaxParagraphs }

\* for run in paragraph.runs: if run.text.strip(): try: reshape, assign;
\* except Exception: pass
RECURSIVE RtlRuns(_, _)
RtlRuns(runs, i) ==
  IF i > Len(runs) THEN runs
  ELSE IF runs[i].kind = "ok"
       THEN RtlRuns([runs EXCEPT ![i].reshaped = TRUE], i + 1)
       ELSE RtlRuns(runs, i + 1)

\* for paragraph in doc.paragraphs: the runs (with ARABIC_SUPPORT), then w:jc right
RECURSIVE RtlParagraphs(_, _, _)
RtlParagraphs(doc, p, arabic_support) ==
  IF p > Len(doc) THEN doc
  ELSE RtlParagraphs(
         [doc EXCEPT ![p] = [runs |-> IF arabic_support THEN RtlRuns(@.runs, 1) ELSE @.runs,
                             jc |-> "right"]],
         p + 1, arabic_support)

\* apply_rtl_to_docx: every exception is caught and gives False; on success
\* the document is saved again with right alignment. rtl_ok: nothing failed.
apply_rtl_to_docx(folder, docx_path, rtl_ok, t) ==
  IF docx_path \in DOMAIN folder /\ folder[docx_path].whole /\ rtl_ok
  THEN [folder |-> [folder EXCEPT ![docx_path].rtl = TRUE, ![docx_path].mtime = t],
        result |-> TRUE]
  ELSE [folder |-> folder, result |-> FALSE]

\* Convert.post, engine selection, engine run and post-processing
ConvertEngineRun(r) ==
  /\ pc[r] = "miss"
  /\ \E outcome \in Outcomes, rtl_ok \in BOOLEAN, i1 \in BOOLEAN, i2 \in BOOLEAN :
       LET l == loc[r]
           h == hist[r]
           pt == now - l.start_time
           m0 == Mem(conversion_stats, redis_total, uploads, h.calls)
           branch == SelectBranch(l.engine, PDF2DOCX_AVAILABLE, ASPOSE_AVAILABLE)
           by == BranchEngine(branch)
           \* an engine cannot read an input that is gone
           out == IF l.pdf_path \in DOMAIN uploads THEN outcome ELSE "raise"
           written == EngineWrite(converted, l.docx_filename, out, by, now)
           e == IF branch = "aspose"
                THEN AsposeFailure(Failure("engine_detail"))
                ELSE Failure("engine_detail")
       IN IF branch = "none"
          THEN /\ Return(r, StatsThenAbort(m0, l.engine, 503, MsgNoEngine, l.engine,
                                           l.pdf_path, pt, i1, i2),
                         [h EXCEPT !.branch = branch])
               /\ UNCHANGED converted
          ELSE LET h1 == [h EXCEPT !.branch = branch, !.invoked = by, !.outcome = out,
                                   !.runs = @ + 1,
                                   !.wrote = IF out \in {"ok", "raise_partial"}
                                             THEN l.docx_filename ELSE NoName]
               IN IF out \in {"raise", "raise_partial"}
                  THEN /\ Return(r, ConvertExcept(m0, e, l.engine, l.pdf_path, pt, i1), h1)
                       /\ converted' = written
                  ELSE /\ converted' = apply_rtl_to_docx(written, l.docx_filename,
                                                         rtl_ok, now).folder
                       /\ loc' = [loc EXCEPT ![r] =
                                    [l EXCEPT !.engine = EngineAfter(l.engine, branch),
                                              !.success = TRUE]]
                       /\ hist' = [hist EXCEPT ![r] = h1]
                       /\ pc' = [pc EXCEPT ![r] = "converted"]
                       /\ UNCHANGED <<conversion_stats, redis_total, uploads, resp>>
  /\ UNCHANGED <<env, now, redis_kv, log>>

\* Convert.post, from the output check to the success response
ConvertFinish(r) ==
  /\ pc[r] = "converted"
  /\ \E setex_ok \in BOOLEAN, i1 \in BOOLEAN, i2 \in BOOLEAN :
       LET l == loc[r]
           h == hist[r]
           pt == now - l.start_time
           m0 == Mem(conversion_stats, redis_total, uploads, h.calls)
       IN IF l.docx_filename \notin DOMAIN converted \/ ~l.success
          THEN /\ Return(r, StatsThenAbort(m0, l.engine, 500, MsgNoWord, l.engine,
                                           l.pdf_path, pt, i1, i2), h)
               /\ UNCHANGED <<redis_kv, log>>
          ELSE IF cache_available /\ ~setex_ok
          THEN /\ Return(r, ConvertExcept(m0, Failure("redis_detail"), l.engine,
                                          l.pdf_path, pt, i1),
                         [h EXCEPT !.setex_failed = TRUE])
               /\ UNCHANGED <<redis_kv, log>>
          ELSE LET m1 == IF l.pdf_path \in DOMAIN uploads
                         THEN [m0 EXCEPT !.uploads = RemoveFile(@, l.pdf_path)]
                         ELSE m0
                   u == update_stats(m1, TRUE, l.engine, pt, i1)
                   d == [success |-> TRUE, message |-> MsgOk,
                         filename |-> l.docx_filename, engine_used |-> l.engine,
                         download_url |-> l.docx_filename, processing_time |-> pt,
                         cached |-> FALSE]
               IN /\ redis_kv' = set_cached_result(redis_kv, l.file_hash, l.engine,
                                                   l.docx_filename, now)
                  /\ Return(r, [m |-> u.m, resp |-> Marshal(d)], h)
                  /\ log' = Append(log, [bytes |-> h.bytes, requested |-> h.requested,
                                         used |-> l.engine, file_hash |-> l.file_hash,
                                         artifact |-> l.docx_filename,
                                         stored |-> cache_available, stored_at |-> now])
  /\ UNCHANGED <<env, now, converted>>

\* ------------------------------------------------------------------ sweeper
\* a retention test that also takes the files of exactly the window
Expired_AtWindow(folder, t) ==
  { n \in DOMAIN folder : t - folder[n].mtime >= FILE_RETENTION_HOURS * SecondsPerHour }

\* current_time - file_time > timedelta(hours=FILE_RETENTION_HOURS)
Expired(folder, t) ==
  { n \in DOMAIN folder : t - folder[n].mtime > FILE_RETENTION_HOURS * SecondsPerHour }

Without(folder, names) == [n \in DOMAIN folder \ names |-> folder[n]]

\* a cycle that takes every file, whatever its age
SweepAll_AnyAge ==
  /\ uploads' = << >>
  /\ converted' = << >>

\* a cycle in which no call raises: both folders are gone through
SweepAll ==
  /\ uploads' = Without(uploads, Expired(uploads, now))
  /\ converted' = Without(converted, Expired(converted, now))

\* getmtime or remove raises on file f of the upload folder: the expired
\* files listed before f are gone, the rest of the cycle is skipped
SweepFailsInUploads(f) ==
  /\ f \in DOMAIN uploads
  /\ \E d \in SUBSET (Expired(uploads, now) \ {f}) : uploads' = Without(uploads, d)
  /\ UNCHANGED converted

\* the same on file f of the converted folder, listed second
SweepFailsInConverted(f) ==
  /\ f \in DOMAIN converted
  /\ uploads' = Without(uploads, Expired(uploads, now))
  /\ \E d \in SUBSET (Expired(converted, now) \ {f}) : converted' = Without(converted, d)

\* One cycle of delete_old_files, which is started unless RENDER is set. The
\* two folders are listed in turn, in any order within a folder; an exception
\* on one file ends the cycle (the try encloses both loops).
SweepFiles(f) ==
  /\ ~RENDER
  /\ \/ f = NoName /\ SweepAll
     \/ SweepFailsInUploads(f)
     \/ SweepFailsInConverted(f)

Sweep ==
  /\ \E f \in DOMAIN uploads \cup DOMAIN converted \cup {NoName} : SweepFiles(f)
  /\ UNCHANGED <<env, now, redis_kv, redis_total, conversion_stats, pc, loc,
                 hist, resp, log>>

\* the wall clock advances
Tick ==
  /\ now + TickStep <= MaxTime
  /\ \E r \in Reqs : pc[r] # "idle"      \* time is counted from the first request
  /\ now' = now + TickStep
  /\ UNCHANGED <<env, uploads, converted, redis_kv, redis_total, conversion_stats,
                 pc, loc, hist, resp, log>>

Next ==
  \/ \E r \in Reqs : ConvertReceive(r)
  \/ \E r \in Reqs : ConvertCacheCheck(r)
  \/ \E r \in Reqs : ConvertEngineRun(r)
  \/ \E r \in Reqs : ConvertFinish(r)
  \/ Sweep
  \/ Tick

Spec == Init /\ [][Next]_vars


\* ------------------------------------------- the other four operations
\* the files of a multipart request: name and whether the bytes can be opened
MaxFiles == 2
OpFiles == { [name |-> n, good |-> g] : n \in ImageNames, g \in BOOLEAN }
FileLists == UNION { [1..k -> OpFiles] : k \in 0..MaxFiles }

OpNames == {"pdf_to_image", "image_to_pdf", "merge_pdf", "compress_pdf"}

\* what the processing of an operation may do to its output file
Works == {"ok", "raise", "raise_partial"}

MsgNoFitz == Text("PDF engine not available", None)
MsgBadPdf == Text("upload a valid PDF file", None)
MsgToImageFailed == Text("failed to convert the file", None)
MsgNoImagesChosen == Text("no images were chosen", None)
MsgNoValidImages == Text("no valid images found", None)
MsgMergeTwo == Text("choose at least two PDF files", None)
MsgOkToImage == Text("converted to images", None)
MsgOkFromImage == Text("images merged into a PDF", None)
MsgOkMerge == Text("files merged", None)
MsgOkCompress == Text("file compressed", None)

\* uuid4 of the i-th file a request saves
Uuid(r, i) == r \o "_" \o ToString(i)

\* file.filename.lower().endswith('.pdf')
EndsWithPdf(filename) == filename.ext # NoDot /\ Lower(filename.ext) = "pdf"

\* file.filename.lower().split('.')[-1] in ['jpg', 'jpeg', 'png']
IsImageName(filename) ==
  (IF filename.ext = NoDot THEN Lower(filename.stem) ELSE Lower(filename.ext))
    \in {"jpg", "jpeg", "png"}

\* the dict a handler without marshal_with returns
OkBody(message, filename) ==
  [code |-> 200, success |-> TRUE, message |-> message, filename |-> filename,
   engine_used |-> None, download_url |-> filename, error |-> NoText,
   cached |-> None, processing_time |-> NoTime]

\* except Exception as e: api.abort(500, str(e))   (ConvertToImage.post)
AbortStr(m, e) == [m |-> m, resp |-> AbortResponse(HTTPError(500, e.str))]

\* except Exception as e: update_stats(False, op, ...); api.abort(500, str(e))
OpExcept(m, e, op, processing_time, incr_ok) ==
  LET u == update_stats(m, FALSE, op, processing_time, incr_ok)
  IN IF u.raised
     THEN [m |-> u.m, resp |-> handle_unexpected_error(KeyError)]
     ELSE AbortStr(u.m, e)

AddFile(folder, name, file) ==
  [n \in DOMAIN folder \cup {name} |-> IF n = name THEN file ELSE folder[n]]

\* for file in files: the accepted ones are saved under a fresh name and kept
\* in temp_files; fail_at is the file whose save raises (0: none does).
\* opened counts the files the library could open.
RECURSIVE SaveLoop(_, _, _, _, _, _, _)
SaveLoop(files, i, pdfs, r, fail_at, t, st) ==
  IF i > Len(files) THEN st
  ELSE LET f == files[i]
           accepted == IF pdfs THEN EndsWithPdf(f.name) ELSE IsImageName(f.name)
           path == clean_filename(f.name, Uuid(r, i))
       IN IF ~accepted THEN SaveLoop(files, i + 1, pdfs, r, fail_at, t, st)
          ELSE IF i = fail_at THEN [st EXCEPT !.raised = TRUE]
          ELSE SaveLoop(files, i + 1, pdfs, r, fail_at, t,
                 [st EXCEPT !.uploads = AddFile(@, path, [mtime |-> t, bytes |-> <<1>>]),
                            !.temp_files = @ \cup {path},
                            !.opened = IF f.good THEN @ + 1 ELSE @])

SaveStart(ups) == [uploads |-> ups, temp_files |-> {}, opened |-> 0, raised |-> FALSE]

\* a request thread is free to take request r
Accepts(r) ==
  /\ pc[r] = "idle"
  /\ \A q \in Earlier(r) : pc[q] # "idle"
  /\ Cardinality({q \in Reqs : pc[q] \notin {"idle", "done"}}) < workers

\* ConvertToImage.post
ToImage(r) ==
  /\ Accepts(r)
  /\ \E has_file \in BOOLEAN, filename \in FileNames, save_ok \in BOOLEAN,
        work \in Works, incr_ok \in BOOLEAN :
       LET m0 == Mem(conversion_stats, redis_total, uploads, <<>>)
           h0 == [HistInit EXCEPT !.op = "pdf_to_image", !.start = Len(log), !.began = now]
           safe_filename == clean_filename(filename, Uuid(r, 1))
           zip_filename == [safe_filename EXCEPT !.ext = "zip"]
           h1 == [h0 EXCEPT !.valid = TRUE, !.nfiles = 1]
           h2 == [h1 EXCEPT !.inputs = {safe_filename}, !.outcome = work,
                            !.wrote = IF work = "raise" THEN NoName ELSE zip_filename]
           \* finally: the upload saved above is removed again
           m1 == [m0 EXCEPT !.uploads = RemoveFile(@, safe_filename)]
       IN IF ~fitz
          THEN /\ Return(r, [m |-> m0, resp |-> AbortResponse(HTTPError(503, MsgNoFitz))], h0)
               /\ UNCHANGED converted
          ELSE IF ~has_file
          THEN /\ Return(r, AbortStr(m0, HTTPError(400, MsgNoFile)), h0)
               /\ UNCHANGED converted
          ELSE IF (filename.stem = "" /\ filename.ext = NoDot) \/ ~EndsWithPdf(filename)
          THEN /\ Return(r, AbortStr(m0, HTTPError(400, MsgBadPdf)), h0)
               /\ UNCHANGED converted
          ELSE IF ~save_ok
          THEN /\ Return(r, AbortStr(m0, Failure("io_detail")), h1)
               /\ UNCHANGED converted
          ELSE IF work = "ok"
          THEN /\ Return(r, [m |-> update_stats(m1, TRUE, "pdf_to_image", 0, incr_ok).m,
                              resp |-> OkBody(MsgOkToImage, zip_filename)], h2)
               /\ converted' = EngineWrite(converted, zip_filename, work, "pdf_to_image", now)
          ELSE /\ Return(r, AbortStr(update_stats(m1, FALSE, "pdf_to_image", 0, incr_ok).m,
                                      HTTPError(500, MsgToImageFailed)), h2)
               /\ converted' = EngineWrite(converted, zip_filename, work, "pdf_to_image", now)
  /\ UNCHANGED <<env, now, redis_kv, log>>

\* ConvertFromImage.post
FromImage(r) ==
  /\ Accepts(r)
  /\ \E files \in FileLists, work \in Works, incr_ok \in BOOLEAN :
     \E fail_at \in 0..Len(files) :
       LET m0 == Mem(conversion_stats, redis_total, uploads, <<>>)
           h0 == [HistInit EXCEPT !.op = "image_to_pdf", !.start = Len(log), !.began = now,
                                  !.nfiles = Len(files)]
           st == SaveLoop(files, 1, FALSE, r, fail_at, now, SaveStart(uploads))
           m1 == [m0 EXCEPT !.uploads = st.uploads]
           h1 == [h0 EXCEPT !.valid = TRUE, !.inputs = st.temp_files]
           pdf_filename == [stem |-> "images_merged", id |-> ToString(now), ext |-> "pdf"]
           h2 == [h1 EXCEPT !.outcome = work,
                            !.wrote = IF work = "raise" THEN NoName ELSE pdf_filename]
           m2 == [m1 EXCEPT !.uploads = Without(@, st.temp_files)]
       IN IF Len(files) = 0 \/ (files[1].name.stem = "" /\ files[1].name.ext = NoDot)
          THEN /\ Return(r, OpExcept(m0, HTTPError(400, MsgNoImagesChosen), "image_to_pdf",
                                      0, incr_ok), h0)
               /\ UNCHANGED converted
          ELSE IF st.raised
          THEN /\ Return(r, OpExcept(m1, Failure("io_detail"), "image_to_pdf", 0, incr_ok), h1)
               /\ UNCHANGED converted
          ELSE IF st.opened = 0
          THEN /\ Return(r, OpExcept(m1, HTTPError(400, MsgNoValidImages), "image_to_pdf",
                                      0, incr_ok), h1)
               /\ UNCHANGED converted
          ELSE IF work # "ok"
          THEN /\ Return(r, OpExcept(m1, Failure("engine_detail"), "image_to_pdf",
                                      0, incr_ok), h2)
               /\ converted' = EngineWrite(converted, pdf_filename, work, "image_to_pdf", now)
          ELSE /\ Return(r, [m |-> update_stats(m2, TRUE, "image_to_pdf", 0, incr_ok).m,
                              resp |-> OkBody(MsgOkFromImage, pdf_filename)], h2)
               /\ converted' = EngineWrite(converted, pdf_filename, work, "image_to_pdf", now)
  /\ UNCHANGED <<env, now, redis_kv, log>>

\* MergePDF.post
Merge(r) ==
  /\ Accepts(r)
  /\ \E files \in FileLists, work \in Works, incr_ok \in BOOLEAN :
     \E fail_at \in 0..Len(files) :
       LET m0 == Mem(conversion_stats, redis_total, uploads, <<>>)
           h0 == [HistInit EXCEPT !.op = "merge_pdf", !.start = Len(log), !.began = now,
                                  !.nfiles = Len(files)]
           st == SaveLoop(files, 1, TRUE, r, fail_at, now, SaveStart(uploads))
           m1 == [m0 EXCEPT !.uploads = st.uploads]
           h1 == [h0 EXCEPT !.valid = TRUE, !.inputs = st.temp_files]
           output_filename == [stem |-> "merged", id |-> ToString(now), ext |-> "pdf"]
           h2 == [h1 EXCEPT !.outcome = work,
                            !.wrote = IF work = "raise" THEN NoName ELSE output_filename]
           m2 == [m1 EXCEPT !.uploads = Without(@, st.temp_files)]
       IN IF ~fitz
          THEN /\ Return(r, [m |-> m0, resp |-> AbortResponse(HTTPError(503, MsgNoFitz))], h0)
               /\ UNCHANGED converted
          ELSE IF Len(files) < 2
          THEN /\ Return(r, OpExcept(m0, HTTPError(400, MsgMergeTwo), "merge_pdf",
                                      0, incr_ok), h0)
               /\ UNCHANGED converted
          ELSE IF st.raised
          THEN /\ Return(r, OpExcept(m1, Failure("io_detail"), "merge_pdf", 0, incr_ok), h1)
               /\ UNCHANGED converted
          ELSE IF work # "ok"
          THEN /\ Return(r, OpExcept(m1, Failure("engine_detail"), "merge_pdf",
                                      0, incr_ok), h2)
               /\ converted' = EngineWrite(converted, output_filename, work, "merge_pdf", now)
          ELSE /\ Return(r, [m |-> update_stats(m2, TRUE, "merge_pdf", 0, incr_ok).m,
                              resp |-> OkBody(MsgOkMerge, output_filename)], h2)
               /\ converted' = EngineWrite(converted, output_filename, work, "merge_pdf", now)
  /\ UNCHANGED <<env, now, redis_kv, log>>

\* CompressPDF.post
Compress(r) ==
  /\ Accepts(r)
  /\ \E has_file \in BOOLEAN, filename \in FileNames, save_ok \in BOOLEAN,
        work \in Works, incr_ok \in BOOLEAN :
       LET m0 == Mem(conversion_stats, redis_total, uploads, <<>>)
           h0 == [HistInit EXCEPT !.op = "compress_pdf", !.start = Len(log), !.began = now]
           safe_filename == clean_filename(filename, Uuid(r, 1))
           output_filename == [safe_filename EXCEPT !.stem = "compressed_" \o @]
           m1 == [m0 EXCEPT !.uploads =
                    AddFile(@, safe_filename, [mtime |-> now, bytes |-> <<1>>])]
           h1 == [h0 EXCEPT !.valid = TRUE, !.nfiles = 1]
           h2 == [h1 EXCEPT !.inputs = {safe_filename}, !.outcome = work,
                            !.wrote = IF work = "raise" THEN NoName ELSE output_filename]
           m2 == [m1 EXCEPT !.uploads = RemoveFile(@, safe_filename)]
       IN IF ~fitz
          THEN /\ Return(r, [m |-> m0, resp |-> AbortResponse(HTTPError(503, MsgNoFitz))], h0)
               /\ UNCHANGED converted
          ELSE IF ~has_file
          THEN /\ Return(r, OpExcept(m0, HTTPError(400, MsgNoFile), "compress_pdf",
                                      0, incr_ok), h0)
               /\ UNCHANGED converted
          ELSE IF ~save_ok
          THEN /\ Return(r, OpExcept(m0, Failure("io_detail"), "compress_pdf",
                                      0, incr_ok), h1)
               /\ UNCHANGED converted
          ELSE IF work # "ok"
          THEN /\ Return(r, OpExcept(m1, Failure("engine_detail"), "compress_pdf",
                                      0, incr_ok), h2)
               /\ converted' = EngineWrite(converted, output_filename, work,
                                           "compress_pdf", now)
          ELSE /\ Return(r, [m |-> update_stats(m2, TRUE, "compress_pdf", 0, incr_ok).m,
                              resp |-> OkBody(MsgOkCompress, output_filename)], h2)
               /\ converted' = EngineWrite(converted, output_filename, work,
                                           "compress_pdf", now)
  /\ UNCHANGED <<env, now, redis_kv, log>>

\* the server with PyMuPDF present or not, handling the four operations
InitOps ==
  /\ PDF2DOCX_AVAILABLE = TRUE
  /\ ASPOSE_AVAILABLE = TRUE
  /\ cache_available \in BOOLEAN
  /\ RENDER = TRUE
  /\ fitz \in BOOLEAN
  /\ now = 0
  /\ uploads = << >>
  /\ converted = << >>
  /\ redis_kv = << >>
  /\ redis_total = 0
  /\ conversion_stats = StatsInit
  /\ workers = 1
  /\ pc = [r \in Reqs |-> "idle"]
  /\ loc = [r \in Reqs |-> LocInit]
  /\ hist = [r \in Reqs |-> HistInit]
  /\ resp = [r \in Reqs |-> NoResp]
  /\ log = << >>

NextOps ==
  \/ \E r \in Reqs : ToImage(r)
  \/ \E r \in Reqs : FromImage(r)
  \/ \E r \in Reqs : Merge(r)
  \/ \E r \in Reqs : Compress(r)
  \/ Tick

SpecOps == InitOps /\ [][NextOps]_vars

\* ------------------------------------------- the sweeper over aged files
Minutes(k) == k * 60

\* the ages of the files a cycle finds
Ages == {Minutes(30), Minutes(60), Minutes(61), Minutes(90)}

\* files left from earlier requests
OldUploads == { clean_filename([stem |-> "a", ext |-> "PDF"], r) : r \in Reqs }
OldConverted == { DocxName(n) : n \in OldUploads }

\* both folders hold files of those ages when the cycle starts
InitSweep ==
  /\ PDF2DOCX_AVAILABLE = TRUE
  /\ ASPOSE_AVAILABLE = TRUE
  /\ cache_available = FALSE
  /\ RENDER = FALSE
  /\ fitz = TRUE
  /\ now = Minutes(90)
  /\ \E names \in SUBSET OldUploads : \E age \in [names -> Ages] :
       uploads = [n \in names |-> [mtime |-> now - age[n], bytes |-> <<1>>]]
  /\ \E names \in SUBSET OldConverted : \E age \in [names -> Ages] :
       converted = [n \in names |->
                      [mtime |-> now - age[n], whole |-> TRUE, rtl |-> TRUE, by |-> "standard"]]
  /\ redis_kv = << >>
  /\ redis_total = 0
  /\ conversion_stats = StatsInit
  /\ workers = 1
  /\ pc = [r \in Reqs |-> "idle"]
  /\ loc = [r \in Reqs |-> LocInit]
  /\ hist = [r \in Reqs |-> HistInit]
  /\ resp = [r \in Reqs |-> NoResp]
  /\ log = << >>

\* a cycle of delete_old_files, with what it found and the file its
\* exception came from (NoName: none) written down
MaxCycles == 1
SweepCycle ==
  /\ Len(log) < MaxCycles
  /\ \E f \in DOMAIN uploads \cup DOMAIN converted \cup {NoName} :
       /\ SweepFiles(f)
       /\ log' = Append(log, [uploads |-> uploads, converted |-> converted, raised_on |-> f])
  /\ UNCHANGED <<env, now, redis_kv, redis_total, conversion_stats, pc, loc, hist, resp>>

NextSweep == SweepCycle

SpecSweep == InitSweep /\ [][NextSweep]_vars

\* ------------------------------------- the sweeper thread over its lifetime
\* the process starts with RENDER set or not, and with old files in the folders
InitLive ==
  /\ PDF2DOCX_AVAILABLE = TRUE
  /\ ASPOSE_AVAILABLE = TRUE
  /\ cache_available = FALSE
  /\ RENDER \in BOOLEAN
  /\ fitz = TRUE
  /\ now = Minutes(90)
  /\ \E names \in SUBSET OldUploads : \E age \in [names -> Ages] :
       uploads = [n \in names |-> [mtime |-> now - age[n], bytes |-> <<1>>]]
  /\ \E names \in SUBSET OldConverted : \E age \in [names -> Ages] :
       converted = [n \in names |->
                      [mtime |-> now - age[n], whole |-> TRUE, rtl |-> TRUE, by |-> "standard"]]
  /\ redis_kv = << >>
  /\ redis_total = 0
  /\ conversion_stats = StatsInit
  /\ workers = 1
  /\ pc = [r \in Reqs |-> "idle"]
  /\ loc = [r \in Reqs |-> LocInit]
  /\ hist = [r \in Reqs |-> HistInit]
  /\ resp = [r \in Reqs |-> NoResp]
  /\ log = << >>

\* one pass of the while True loop of the started thread; the log keeps the
\* file the pass raised on (NoName: none)
LiveCycle ==
  /\ \E f \in DOMAIN uploads \cup DOMAIN converted \cup {NoName} :
       /\ SweepFiles(f)
       /\ log' = <<[raised_on |-> f]>>
  /\ UNCHANGED <<env, now, redis_kv, redis_total, conversion_stats, pc, loc, hist, resp>>

\* time passes between the passes (and when no thread runs)
LiveTick ==
  /\ now + TickStep <= Minutes(90) + MaxTime
  /\ now' = now + TickStep
  /\ UNCHANGED <<env, uploads, converted, redis_kv, redis_total, conversion_stats,
                 pc, loc, hist, resp, log>>

NextLive == LiveCycle \/ LiveTick

\* a started thread never stops: the except is inside the loop
SpecLive == InitLive /\ [][NextLive]_vars /\ WF_vars(LiveCycle)

\* ------------------------------------- Convert requests handled together
\* the threaded server takes the second request while the first is running
InitConc ==
  /\ PDF2DOCX_AVAILABLE \in BOOLEAN
  /\ ASPOSE_AVAILABLE \in BOOLEAN
  /\ cache_available = TRUE
  /\ RENDER = TRUE
  /\ fitz = TRUE
  /\ now = 0
  /\ uploads = << >>
  /\ converted = << >>
  /\ redis_kv = << >>
  /\ redis_total = 0
  /\ conversion_stats = StatsInit
  /\ workers = Cardinality(Reqs)
  /\ pc = [r \in Reqs |-> "idle"]
  /\ loc = [r \in Reqs |-> LocInit]
  /\ hist = [r \in Reqs |-> HistInit]
  /\ resp = [r \in Reqs |-> NoResp]
  /\ log = << >>

NextConc ==
  \/ \E r \in Reqs : ConvertReceive(r)
  \/ \E r \in Reqs : ConvertCacheCheck(r)
  \/ \E r \in Reqs : ConvertEngineRun(r)
  \/ \E r \in Reqs : ConvertFinish(r)
  \/ Tick

SpecConc == InitConc /\ [][NextConc]_vars

\* ------------------------------ update_stats called by concurrent requests
\* The three augmented assignments of update_stats, in the order of the code.
\* Each is a read of the dict entry, an addition and a write back; another
\* thread can run between the read and the write.
Counters == <<"total", "kind", "usage">>

\* the dict entry the k-th augmented assignment of a call works on
CounterPath(k, success, engine) ==
  CASE Counters[k] = "total" -> <<"total_conversions">>
    [] Counters[k] = "kind" -> IF success THEN <<"successful_conversions">>
                                          ELSE <<"failed_conversions">>
    [] OTHER -> <<"engine_usage", engine>>

ReadEntry(stats, path) ==
  IF Len(path) = 1 THEN stats[path[1]] ELSE stats[path[1]][path[2]]

WriteEntry(stats, path, v) ==
  IF Len(path) = 1 THEN [stats EXCEPT ![path[1]] = v]
  ELSE [stats EXCEPT ![path[1]][path[2]] = v]

StatLoc(success, engine, processing_time) ==
  [success |-> success, engine |-> engine, processing_time |-> processing_time,
   k |-> 1, tmp |-> 0]

\* two request threads, each about to call update_stats
InitStats ==
  /\ PDF2DOCX_AVAILABLE = TRUE
  /\ ASPOSE_AVAILABLE = TRUE
  /\ cache_available \in BOOLEAN
  /\ RENDER = TRUE
  /\ fitz = TRUE
  /\ now = 0
  /\ uploads = << >>
  /\ converted = << >>
  /\ redis_kv = << >>
  /\ redis_total = 0
  /\ conversion_stats = StatsInit
  /\ workers = Cardinality(Reqs)
  /\ pc = [r \in Reqs |-> "load"]
  /\ \E a \in [Reqs -> BOOLEAN \X Engines \X {0, 1}] :
       loc = [r \in Reqs |-> StatLoc(a[r][1], a[r][2], a[r][3])]
  /\ hist = [r \in Reqs |-> HistInit]
  /\ resp = [r \in Reqs |-> NoResp]
  /\ log = << >>

\* the read of an augmented assignment
StatsLoad(r) ==
  /\ pc[r] = "load"
  /\ LET l == loc[r]
     IN loc' = [loc EXCEPT ![r].tmp =
                  ReadEntry(conversion_stats, CounterPath(l.k, l.success, l.engine))]
  /\ pc' = [pc EXCEPT ![r] = "store"]
  /\ UNCHANGED <<env, now, uploads, converted, redis_kv, redis_total, conversion_stats,
                 hist, resp, log>>

\* its addition and write
StatsStore(r) ==
  /\ pc[r] = "store"
  /\ LET l == loc[r]
     IN /\ conversion_stats' =
             WriteEntry(conversion_stats, CounterPath(l.k, l.success, l.engine), l.tmp + 1)
        /\ loc' = [loc EXCEPT ![r].k = IF l.k < Len(Counters) THEN l.k + 1 ELSE l.k]
        /\ pc' = [pc EXCEPT ![r] = IF l.k < Len(Counters) THEN "load" ELSE "rest"]
  /\ UNCHANGED <<env, now, uploads, converted, redis_kv, redis_total, hist, resp, log>>

\* the Redis incr (atomic in Redis) and the running average
StatsRest(r) ==
  /\ pc[r] = "rest"
  /\ \E incr_ok \in BOOLEAN :
       LET l == loc[r]
           n == conversion_stats.total_conversions
           avg == conversion_stats.average_processing_time
       IN /\ redis_total' = IF cache_available /\ incr_ok THEN redis_total + 1
                             ELSE redis_total
          /\ conversion_stats' =
               [conversion_stats EXCEPT !.average_processing_time =
                  IF n = 1 THEN Rat(l.processing_time, 1)
                  ELSE Rat(avg.num * (n - 1) + l.processing_time * avg.den, avg.den * n)]
  /\ hist' = [hist EXCEPT ![r].calls =
                 Append(@, [success |-> loc[r].success, engine |-> loc[r].engine])]
  /\ pc' = [pc EXCEPT ![r] = "done"]
  /\ UNCHANGED <<env, now, uploads, converted, redis_kv, loc, resp, log>>

NextStats ==
  \/ \E r \in Reqs : StatsLoad(r)
  \/ \E r \in Reqs : StatsStore(r)
  \/ \E r \in Reqs : StatsRest(r)

SpecStats == InitStats /\ [][NextStats]_vars

\* ------------------------------- update_stats and /stats, one after another
MaxCalls == 3

\* elapsed seconds a call may report
Elapsed == {0, 1, 3}

\* the operation names handlers pass: two of engine_usage and 'unknown'
CallNames == {"standard", "merge_pdf", "unknown"}

\* the durable counter may hold a count an earlier process left there
CarriedOver == {0, 5}

InitStatsSeq ==
  /\ PDF2DOCX_AVAILABLE = TRUE
  /\ ASPOSE_AVAILABLE = TRUE
  /\ cache_available \in BOOLEAN
  /\ RENDER = TRUE
  /\ fitz = TRUE
  /\ now = 0
  /\ uploads = << >>
  /\ converted = << >>
  /\ redis_kv = << >>
  /\ redis_total \in (IF cache_available THEN CarriedOver ELSE {0})
  /\ conversion_stats = StatsInit
  /\ workers = 1
  /\ pc = [r \in Reqs |-> "idle"]
  /\ loc = [r \in Reqs |-> LocInit]
  /\ hist = [r \in Reqs |-> HistInit]
  /\ resp = [r \in Reqs |-> NoResp]
  /\ log = << >>

\* one update_stats call made by a handler; a KeyError it raises is caught
\* by the handler and leaves conversion_stats as the call left it
StatsCall ==
  /\ Len(log) < MaxCalls
  /\ \E success \in BOOLEAN, engine \in CallNames, elapsed \in Elapsed, incr_ok \in BOOLEAN :
       LET u == update_stats(Mem(conversion_stats, redis_total, uploads, <<>>),
                             success, engine, elapsed, incr_ok)
       IN /\ conversion_stats' = u.m.stats
          /\ redis_total' = u.m.rtotal
          /\ log' = Append(log, [success |-> success, engine |-> engine,
                                 elapsed |-> elapsed])
  /\ UNCHANGED <<env, now, uploads, converted, redis_kv, pc, loc, hist, resp>>

\* Stats.get: total_conversions is overwritten with the Redis counter when
\* the key is there and the get does not raise
StatsGet ==
  /\ \E get_ok \in BOOLEAN :
       conversion_stats' =
         IF cache_available /\ get_ok /\ redis_total # 0
         THEN [conversion_stats EXCEPT !.total_conversions = redis_total]
         ELSE conversion_stats
  /\ UNCHANGED <<env, now, uploads, converted, redis_kv, redis_total, pc, loc, hist,
                 resp, log>>

NextStatsSeq == StatsCall \/ StatsGet

SpecStatsSeq == InitStatsSeq /\ [][NextStatsSeq]_vars

\* ------------------------------------------------------------ properties
Done(r) == pc[r] = "done"
Succeeded(r) == Done(r) /\ resp[r].code = 200 /\ resp[r].success
ValidationMessages == {MsgNoFile, MsgNoName, MsgBadType}

\* C1: two Convert requests with the same bytes and the same requested
\* engine, the first completed with its cache entry stored and still live and
\* its artifact present when the second looks up: equal fingerprints, and
\* the second is a cache hit. Stated for every engine and availability.
C1_SecondSubmissionIsHit ==
  \A r \in Reqs : hist[r].looked =>
    \A i \in hist[r].prior :
      log[i].file_hash = hist[r].file_hash /\ hist[r].cache_hit

\* C2: a Convert request that succeeds by running an engine reports in
\* engine_used the engine that ran; when the requested engine is unavailable
\* and the other is available, that is the other engine, not the requested.
C2_EngineUsedIsActual ==
  \A r \in Reqs : (Succeeded(r) /\ ~hist[r].cache_hit) =>
    /\ resp[r].engine_used = hist[r].invoked
    /\ (hist[r].requested = "high_quality" /\ ~ASPOSE_AVAILABLE /\ PDF2DOCX_AVAILABLE)
         => resp[r].engine_used = "standard"
    /\ (hist[r].requested = "standard" /\ ~PDF2DOCX_AVAILABLE /\ ASPOSE_AVAILABLE)
         => resp[r].engine_used = "high_quality"

C2_Witness ==
  \E r \in Reqs :
    /\ Succeeded(r) /\ ~hist[r].cache_hit
    /\ hist[r].requested = "high_quality" /\ ~ASPOSE_AVAILABLE
    /\ resp[r].engine_used = "standard"

\* C3: every request calls update_stats exactly once, with success exactly
\* when the request ends in a successful response.
C3_StatsOncePerRequest ==
  \A r \in Reqs : Done(r) =>
    /\ Len(hist[r].calls) = 1
    /\ hist[r].calls[1].success = (resp[r].code = 200)

\* C4: a lookup that finds an entry whose TTL has elapsed, or whose artifact
\* is gone from the converted folder, is never answered as a cache hit; the
\* request goes on to engine selection and runs the engine selected.
C4_StaleEntryIsMiss ==
  \A r \in Reqs : hist[r].stale # None =>
    /\ ~hist[r].cache_hit
    /\ pc[r] \in {"miss", "converted", "done"}
    /\ Done(r) => /\ resp[r].message # MsgOkCached
                  /\ hist[r].branch # None
                  /\ hist[r].branch # "none" => hist[r].invoked # None

C4_Witness ==
  \E r \in Reqs :
    /\ hist[r].stale = "missing"
    /\ Succeeded(r)
    /\ hist[r].invoked # None

\* C5: a Redis get that raises during the lookup is treated as a miss: the
\* request reaches engine selection, and with a successful engine run it
\* ends in the success response, never in an error or a recorded failure.
C5_LookupFailureIsMiss ==
  \A r \in Reqs : (Done(r) /\ hist[r].get_failed) =>
    /\ hist[r].branch # None
    /\ hist[r].outcome = "ok" => resp[r].code = 200
    /\ hist[r].outcome = "ok" => \A i \in 1..Len(hist[r].calls) : hist[r].calls[i].success

\* C6: a Redis setex that raises after the engine produced the artifact does
\* not fail the request: success response naming the artifact, one success
\* recorded, the uploaded input deleted.
C6_StoreFailureStillSucceeds ==
  \A r \in Reqs : (Done(r) /\ hist[r].setex_failed) =>
    /\ resp[r].code = 200 /\ resp[r].success
    /\ resp[r].filename = hist[r].wrote
    /\ Len(hist[r].calls) = 1 /\ hist[r].calls[1].success
    /\ hist[r].saved \notin DOMAIN uploads

\* C7: a Convert request without a file part, with an empty filename or with
\* an extension that is not accepted ends in 400 with the validation
\* message, and saves no upload and writes no artifact.
C7_ValidationIsClientError ==
  \A r \in Reqs : (Done(r) /\ ~hist[r].valid) =>
    /\ resp[r].code = 400
    /\ resp[r].message \in ValidationMessages
    /\ hist[r].saved = NoName /\ hist[r].wrote = NoName

\* C8: with neither engine available, a valid Convert request that comes to
\* engine selection ends in 503; no engine is invoked, no artifact produced.
C8_NoEngineIsUnavailable ==
  \A r \in Reqs : (Done(r) /\ hist[r].branch = "none") =>
    /\ resp[r].code = 503
    /\ hist[r].invoked = None /\ hist[r].wrote = NoName

\* C9: no response carries the text of an underlying exception.
C9_NoDiagnosticInResponse ==
  \A r \in Reqs : Done(r) =>
    resp[r].message.detail = None /\ resp[r].error.detail = None

\* C10: when a Convert request that saved its upload has returned, the
\* upload is no longer in the upload folder.
C10_UploadGoneAtReturn ==
  \A r \in Reqs : (Done(r) /\ hist[r].saved # NoName) =>
    hist[r].saved \notin DOMAIN uploads

\* C11: when a ToImage, FromImage, Merge or Compress request has returned,
\* every input file it saved is gone from the upload folder, on success and on
\* every failure path, and a request that saved an input has made one
\* update_stats call, under the name of its operation.
C11_OpsCleanUpAndCount ==
  \A r \in Reqs : (Done(r) /\ hist[r].op \in OpNames) =>
    /\ hist[r].inputs \cap DOMAIN uploads = {}
    /\ \A i \in 1..Len(hist[r].calls) : hist[r].calls[i].engine = hist[r].op
    /\ hist[r].inputs # {} => Len(hist[r].calls) = 1

\* C12: a Merge request with fewer than two files (PyMuPDF present) ends in
\* 400, writes no artifact and records no success.
C12_MergeTooFewIsClientError ==
  \A r \in Reqs : (Done(r) /\ hist[r].op = "merge_pdf" /\ hist[r].nfiles < 2 /\ fitz) =>
    /\ resp[r].code = 400
    /\ hist[r].wrote = NoName
    /\ \A i \in 1..Len(hist[r].calls) : ~hist[r].calls[i].success

\* the folders as cycle i of the log left them
AfterCycle(i) ==
  IF i = Len(log) THEN [uploads |-> uploads, converted |-> converted] ELSE log[i + 1]

Age(folder, n) == now - folder[n].mtime

\* exactly the files of at most 60 minutes are left, as they were
Kept(before, after) ==
  /\ DOMAIN after \subseteq DOMAIN before
  /\ \A n \in DOMAIN before : n \in DOMAIN after <=> Age(before, n) <= Minutes(60)
  /\ \A n \in DOMAIN after : after[n] = before[n]

\* C13: a sweeper cycle in which nothing raises removes from both folders
\* exactly the files older than 60 minutes and leaves the others as they
\* were: of ages 30, 60, 61 and 90 minutes, those of 61 and 90 go.
C13_SweepRemovesExactlyExpired ==
  \A i \in 1..Len(log) : log[i].raised_on = NoName =>
    /\ Kept(log[i].uploads, AfterCycle(i).uploads)
    /\ Kept(log[i].converted, AfterCycle(i).converted)

\* a cycle without exception over files of 60 and 90 minutes in one folder
\* and of 30 and 61 in the other: those of 60 and 30 are left
C13_Witness ==
  /\ Len(log) = 1 /\ log[1].raised_on = NoName
  /\ { Age(log[1].uploads, n) : n \in DOMAIN log[1].uploads } = {Minutes(60), Minutes(90)}
  /\ { Age(log[1].converted, n) : n \in DOMAIN log[1].converted } = {Minutes(30), Minutes(61)}
  /\ { Age(uploads, n) : n \in DOMAIN uploads } = {Minutes(60)}
  /\ { Age(converted, n) : n \in DOMAIN converted } = {Minutes(30)}

\* C14: a cycle in which the call on one expired file raises still deletes
\* every other expired file of both folders.
C14_FailureDoesNotStopCycle ==
  \A i \in 1..Len(log) :
    log[i].raised_on \in Expired(log[i].uploads, now) \cup Expired(log[i].converted, now) =>
    (Expired(AfterCycle(i).uploads, now) \cup Expired(AfterCycle(i).converted, now))
      \subseteq {log[i].raised_on}

\* the update_stats calls that have returned
AllCalls == UNION { { <<r, i>> : i \in 1..Len(hist[r].calls) } : r \in Reqs }
CallsWhere(P(_)) == Cardinality({ c \in AllCalls : P(hist[c[1]].calls[c[2]]) })
IsSuccess(call) == call.success
IsFailure(call) == ~call.success

\* C15: when update_stats calls made by requests handled at the same time
\* have all returned, total_conversions has grown by their number, the
\* success and failure counters by the numbers of such calls, and every
\* engine_usage counter by the number of calls naming it.
C15_NoLostUpdate ==
  (\A r \in Reqs : Done(r)) =>
    /\ conversion_stats.total_conversions = Cardinality(AllCalls)
    /\ conversion_stats.successful_conversions = CallsWhere(IsSuccess)
    /\ conversion_stats.failed_conversions = CallsWhere(IsFailure)
    /\ \A e \in UsageKeys :
         conversion_stats.engine_usage[e] =
           Cardinality({ c \in AllCalls : hist[c[1]].calls[c[2]].engine = e })

\* C16: the body of a successful Convert response carries the cache flag:
\* cached = false and a processing time after an engine run, cached = true
\* when served from the cache.
C16_ResponseCarriesCachedFlag ==
  \A r \in Reqs : (Succeeded(r) /\ hist[r].op = "convert") =>
    IF hist[r].cache_hit
    THEN resp[r].cached = "true"
    ELSE resp[r].cached = "false" /\ resp[r].processing_time # NoTime

OtherEngine(e) == IF e = "standard" THEN "high_quality" ELSE "standard"

\* the engine the selection rule names: the one asked for if it is there,
\* else the other if it is there, else none
Selected(e, pdf2docx, aspose) ==
  LET there(x) == IF x = "standard" THEN pdf2docx ELSE aspose
  IN IF there(e) THEN e ELSE IF there(OtherEngine(e)) THEN OtherEngine(e) ELSE None

\* C18: engine selection is a function of the requested engine and the two
\* availabilities: the requested engine if available, else the other if
\* available, else no engine and a failed request; a request invokes at
\* most one engine, also when that engine raises.
C18_SelectionIsDeterministic ==
  /\ \A e \in Engines, p \in BOOLEAN, a \in BOOLEAN :
       LET b == SelectBranch(e, p, a)
       IN IF Selected(e, p, a) = None THEN b = "none"
          ELSE b # "none" /\ BranchEngine(b) = Selected(e, p, a)
  /\ \A r \in Reqs : hist[r].branch # None =>
       LET sel == Selected(hist[r].requested, PDF2DOCX_AVAILABLE, ASPOSE_AVAILABLE)
       IN /\ hist[r].invoked = sel
          /\ hist[r].runs = (IF sel = None THEN 0 ELSE 1)
          /\ sel = None => (Done(r) /\ resp[r].code # 200)
          /\ hist[r].outcome \in {"raise", "raise_partial"} =>
               (Done(r) /\ \A n \in DOMAIN converted :
                             n = hist[r].wrote => converted[n].by = sel)

\* the requested engine is missing, the other one ran once and raised
C18_Witness ==
  \E r \in Reqs :
    /\ Done(r) /\ hist[r].requested = "standard"
    /\ ~PDF2DOCX_AVAILABLE /\ ASPOSE_AVAILABLE
    /\ hist[r].invoked = "high_quality" /\ hist[r].runs = 1
    /\ hist[r].outcome = "raise"

\* C19: a Convert request whose engine raised ends in an error response, its
\* upload is gone from the upload folder, it has recorded exactly one
\* failure, under the engine requested, and no cache entry or stored result
\* names an artifact of it.
C19_EngineFailureCleansUp ==
  \A r \in Reqs : (Done(r) /\ hist[r].outcome \in {"raise", "raise_partial"}) =>
    /\ resp[r].code = 500 /\ ~resp[r].success
    /\ hist[r].saved \notin DOMAIN uploads
    /\ hist[r].calls = <<[success |-> FALSE, engine |-> hist[r].requested]>>
    /\ \A k \in DOMAIN redis_kv : redis_kv[k].value # DocxName(hist[r].saved)
    /\ \A i \in 1..Len(log) : log[i].artifact # DocxName(hist[r].saved)

\* the fallback engine raised part-way with the cache connected
C19_Witness ==
  \E r \in Reqs :
    /\ Done(r) /\ hist[r].outcome = "raise_partial"
    /\ hist[r].requested = "high_quality" /\ hist[r].invoked = "standard"
    /\ cache_available /\ redis_kv # << >>

\* C20: after a Convert request that failed, the converted folder holds no
\* file that the request's engine wrote.
C20_FailedLeavesNoOutput ==
  \A r \in Reqs : (Done(r) /\ hist[r].op = "convert" /\ resp[r].code # 200) =>
    \A n \in DOMAIN converted : n # hist[r].wrote

\* the key-to-name mapping of the cache
Mapping(kv) == [k \in DOMAIN kv |-> kv[k].value]

\* the stores made so far to key k, oldest first
StoresTo(k) ==
  SelectSeq(log, LAMBDA e : e.stored /\ CacheKey(e.file_hash, e.used) = k)

\* C17: a second set_cached_result with the same arguments leaves the
\* key-to-name mapping as the first left it; after stores to one key by
\* requests handled together the entry holds the name stored last, which is
\* one of the stored names, and every stored name is that of an artifact
\* written to its end.
C17_StoreIdempotentLastWriterWins ==
  /\ \A r \in Reqs : pc[r] = "converted" =>
       LET l == loc[r]
           once == set_cached_result(redis_kv, l.file_hash, l.engine, l.docx_filename, now)
           twice == set_cached_result(once, l.file_hash, l.engine, l.docx_filename,
                                      now + TickStep)
       IN Mapping(twice) = Mapping(once)
  /\ \A k \in DOMAIN redis_kv :
       LET stores == StoresTo(k)
       IN /\ Len(stores) >= 1
          /\ redis_kv[k].value = stores[Len(stores)].artifact
          /\ \A i \in 1..Len(stores) :
               /\ stores[i].artifact \in DOMAIN converted
               /\ converted[stores[i].artifact].whole

\* two requests with the same bytes both missed, both ran the engine and
\* both stored under one key; the entry names the artifact stored last
C17_Witness ==
  /\ \A r \in Reqs : Succeeded(r) /\ ~hist[r].cache_hit /\ hist[r].start = 0
  /\ \E k \in DOMAIN redis_kv :
       /\ Len(StoresTo(k)) = 2
       /\ StoresTo(k)[1].artifact # StoresTo(k)[2].artifact
       /\ redis_kv[k].value = StoresTo(k)[2].artifact

\* C21: two requests of the image, merge and compress operations that began
\* in the same clock second and wrote an output wrote it under different
\* names, so neither overwrites the artifact of the other.
C21_OutputNamesDistinct ==
  \A r \in Reqs, q \in Reqs :
    (/\ r # q
     /\ hist[r].op \in OpNames /\ hist[q].op \in OpNames
     /\ hist[r].began = hist[q].began
     /\ hist[r].wrote # NoName /\ hist[q].wrote # NoName)
      => hist[r].wrote # hist[q].wrote

InFlight(r) == pc[r] \in {"saved", "miss", "converted"}

\* C22: while a Convert request that has lasted less than the retention
\* window is in flight, the upload it saved is in the upload folder and the
\* artifact its engine wrote is in the converted folder, whatever cycles
\* the sweeper has run meanwhile.
C22_SweeperSparesInFlight ==
  \A r \in Reqs :
    (InFlight(r) /\ now - loc[r].start_time < FILE_RETENTION_HOURS * SecondsPerHour) =>
      /\ loc[r].pdf_path \in DOMAIN uploads
      /\ (pc[r] = "converted" /\ hist[r].outcome = "ok")
           => loc[r].docx_filename \in DOMAIN converted

\* the sweeper runs and has taken the artifact of the first request, the
\* second has been in flight for a while and has its upload and its artifact
C22_Witness ==
  /\ ~RENDER
  /\ Succeeded("r1") /\ hist["r1"].wrote # NoName
  /\ hist["r1"].wrote \notin DOMAIN converted
  /\ pc["r2"] = "converted" /\ hist["r2"].outcome = "ok"
  /\ now - loc["r2"].start_time = TickStep
  /\ loc["r2"].pdf_path \in DOMAIN uploads
  /\ loc["r2"].docx_filename \in DOMAIN converted

RECURSIVE SumElapsed(_)
SumElapsed(calls) ==
  IF Len(calls) = 0 THEN 0 ELSE Head(calls).elapsed + SumElapsed(Tail(calls))

\* C23: after update_stats calls and /stats reads made one after another,
\* average_processing_time times the number of calls is the sum of the
\* elapsed values of the calls, also after calls naming an operation that
\* engine_usage lacks and after /stats has refreshed the total from Redis.
C23_AverageIsMean ==
  conversion_stats.average_processing_time.num * Len(log)
    = SumElapsed(log) * conversion_stats.average_processing_time.den

\* C27: total_conversions = successful_conversions + failed_conversions
\* after any update_stats calls and /stats reads made one after another.
C27_TotalIsSum ==
  conversion_stats.total_conversions
    = conversion_stats.successful_conversions + conversion_stats.failed_conversions

\* C24: the step of a Convert request from the cache lookup to the response
\* on a hit: the response is a success naming the artifact of the entry
\* under the requested engine; no engine has run and nothing was written
\* for the request; converted folder and cache are as before; the only
\* update_stats call is a success under the requested engine with the time
\* elapsed since the request started.
C24_CacheHitShortCircuits ==
  [][\A r \in Reqs : (pc[r] = "saved" /\ pc'[r] = "done" /\ hist'[r].cache_hit) =>
       LET key == CacheKey(hist'[r].file_hash, hist[r].requested)
           u == update_stats(Mem(conversion_stats, redis_total, uploads, <<>>), TRUE,
                             hist[r].requested, now - loc[r].start_time, TRUE)
       IN /\ key \in DOMAIN redis_kv
          /\ resp'[r].code = 200 /\ resp'[r].success
          /\ resp'[r].filename = redis_kv[key].value
          /\ resp'[r].filename \in DOMAIN converted
          /\ hist'[r].invoked = None /\ hist'[r].runs = 0 /\ hist'[r].wrote = NoName
          /\ converted' = converted /\ redis_kv' = redis_kv /\ log' = log
          /\ hist'[r].calls = <<[success |-> TRUE, engine |-> hist[r].requested]>>
          /\ conversion_stats' = u.m.stats]_vars

\* a request served from the cache some time after it started
C24_Witness ==
  \E r \in Reqs :
    /\ Succeeded(r) /\ hist[r].cache_hit
    /\ resp[r].message = MsgOkCached
    /\ conversion_stats.average_processing_time.num > 0

\* the paragraph loop on every document: all paragraphs right-aligned, every
\* run the reshaper takes reshaped (with ARABIC_SUPPORT), the others as they were
RtlLoopComplete ==
  \A doc \in Docs, arabic_support \in BOOLEAN :
    LET out == RtlParagraphs(doc, 1, arabic_support)
    IN /\ Len(out) = Len(doc)
       /\ \A p \in 1..Len(doc) :
            /\ out[p].jc = "right"
            /\ Len(out[p].runs) = Len(doc[p].runs)
            /\ \A i \in 1..Len(doc[p].runs) :
                 /\ out[p].runs[i].kind = doc[p].runs[i].kind
                 /\ out[p].runs[i].reshaped
                      = (arabic_support /\ doc[p].runs[i].kind = "ok")

\* C25: post-processing does not fail a conversion. After an engine run that
\* produced the artifact, on any branch and whatever apply_rtl_to_docx
\* returned, the request is at the output check with its artifact in place
\* (unless it has lasted longer than the retention window), and from there,
\* the artifact present, it ends in the success response naming the artifact,
\* the upload deleted and the result stored. In apply_rtl_to_docx a run that cannot be reshaped stops neither
\* the other runs nor the right alignment (a property of the loop alone,
\* evaluated in the initial states).
C25_PostProcessingNeverFails ==
  /\ []((now = 0 /\ \A r \in Reqs : pc[r] = "idle") => RtlLoopComplete)
  /\ [](\A r \in Reqs : hist[r].outcome = "ok" =>
          /\ pc[r] \in {"converted", "done"}
          /\ pc[r] = "converted" =>
               /\ loc[r].success
               /\ now - loc[r].start_time <= FILE_RETENTION_HOURS * SecondsPerHour
                    => loc[r].docx_filename \in DOMAIN converted)
  /\ [][\A r \in Reqs :
          (/\ pc[r] = "converted" /\ pc'[r] = "done"
           /\ loc[r].docx_filename \in DOMAIN converted) =>
            /\ resp'[r].code = 200 /\ resp'[r].success
            /\ resp'[r].filename = loc[r].docx_filename
            /\ resp'[r].filename \in DOMAIN converted'
            /\ loc[r].pdf_path \notin DOMAIN uploads'
            /\ cache_available =>
                 /\ CacheKey(loc[r].file_hash, loc[r].engine) \in DOMAIN redis_kv'
                 /\ redis_kv'[CacheKey(loc[r].file_hash, loc[r].engine)].value
                      = loc[r].docx_filename]_vars

\* C26: the sweeper runs in every configuration of the process and every
\* file past the retention window is eventually deleted, unless its own
\* deletion is what fails, whatever happens to the other expired files.
C26_ExpiredEventuallyDeleted ==
  \A f \in OldUploads \cup OldConverted :
    (f \in Expired(uploads, now) \cup Expired(converted, now))
      ~> \/ f \notin DOMAIN uploads \cup DOMAIN converted
         \/ log # << >> /\ log[1].raised_on = f

\* the request whose engine run wrote the artifact of that name
Producers(name) == { q \in Reqs : hist[q].wrote = name /\ hist[q].outcome = "ok" }

\* C28: every cache entry is stored under the engine that produced its
\* artifact (the engine run after a fallback, not the requested one), by a
\* request whose engine run and post-processing step had ended with the
\* artifact written to its end; and the engine_used of every cache-hit
\* response is the engine that produced the artifact the response names.
C28_EntryEngineIsProducer ==
  /\ \A i \in 1..Len(log) : log[i].stored =>
       /\ Producers(log[i].artifact) # {}
       /\ \A q \in Producers(log[i].artifact) :
            /\ hist[q].invoked = log[i].used
            /\ pc[q] = "done" /\ hist[q].runs = 1
       /\ log[i].artifact \in DOMAIN converted =>
            /\ converted[log[i].artifact].whole
            /\ converted[log[i].artifact].by = log[i].used
  /\ \A k \in DOMAIN redis_kv :
       /\ \E i \in 1..Len(log) :
            /\ log[i].stored /\ log[i].artifact = redis_kv[k].value
            /\ CacheKey(log[i].file_hash, log[i].used) = k
       /\ \A q \in Producers(redis_kv[k].value) : hist[q].invoked = k.engine
       /\ redis_kv[k].value \in DOMAIN converted =>
            /\ converted[redis_kv[k].value].whole
            /\ converted[redis_kv[k].value].by = k.engine
  /\ \A r \in Reqs : (Succeeded(r) /\ hist[r].cache_hit) =>
       /\ Producers(resp[r].filename) # {}
       /\ \A q \in Producers(resp[r].filename) : hist[q].invoked = resp[r].engine_used
       /\ resp[r].filename \in DOMAIN converted =>
            converted[resp[r].filename].by = resp[r].engine_used

\* a hit on an entry that a fallback run had stored
C28_Witness ==
  \E r \in Reqs, q \in Reqs :
    /\ Succeeded(r) /\ hist[r].cache_hit
    /\ q \in Producers(resp[r].filename)
    /\ hist[q].requested = "high_quality" /\ hist[q].branch = "fallback_pdf2docx"
    /\ resp[r].engine_used = "standard"
    /\ resp[r].filename \in DOMAIN converted

====
